---- MODULE Spec2Model ----
(***************************************************************************)
(* A model of the syntax editor widget of tessera-ui-basic-components:     *)
(*   syntax_edit_core.rs  geometry (compute_selection_rects,               *)
(*                        clip_and_take_visible) and the measurement pass; *)
(*   syntax_editor.rs     the input dispatcher (pointer, keyboard, IME)    *)
(*                        and the transactional apply routine              *)
(*                        handle_action.                                   *)
(* Text is a sequence of one-character strings; "\n" is the line break.    *)
(* Pixels (Px) are integers.                                               *)
(***************************************************************************)
EXTENDS Integers, Sequences, FiniteSets, TLC

VARIABLES
    clip,       \* one call of clip_and_take_visible: its inputs and result
    state,      \* TextEditorState, the shared editor state
    on_change,  \* SyntaxEditorArgs.on_change, fixed at configuration build
    input,      \* the InputHandlerInput of the last dispatch pass, as left by it
    calls,      \* the handle_action calls of the last dispatch pass, in order
    frame,      \* the last measurement pass: constraint, outcome
    surface,    \* one call of create_surface_args: its inputs and result
    txn         \* the holder of the Editor State lock: the key or IME block
                \* and its position in handle_action; the last read

vars == <<clip, state, on_change, input, calls, frame, surface, txn>>

----------------------------------------------------------------------------
(* Bounds of the model.                                                    *)

\* rectangle coordinates given to clip_and_take_visible range over -1..CoordMax
CoordMax == 2
\* longest text (characters and line breaks) a buffer holds in the model
MaxLen == 3

\* i32::MAX, the viewport edge of an unbounded axis
I32_MAX == 2147483647

\* Option<T>: None, or Some(v)
None == <<>>
Some(v) == <<v>>
Get(option) == option[1]
UnwrapOr(option, default) == IF option = None THEN default ELSE Get(option)

\* F applied to the value of v, v being evaluated once
Bind(v, F(_)) == CHOOSE r \in { F(x) : x \in {v} } : TRUE

Max(a, b) == IF a >= b THEN a ELSE b
Min(a, b) == IF a <= b THEN a ELSE b

----------------------------------------------------------------------------
(* Geometry: syntax_edit_core.rs                                           *)

RectDef(x, y, w, h) == [x |-> x, y |-> y, width |-> w, height |-> h]

\* the filter_map closure of clip_and_take_visible with the test for
\* "fully right" written with > instead of >=
clip_rect_off_by_one(rect, visible_x1, visible_y1) ==
    LET rect_x1 == rect.x + rect.width
        rect_y1 == rect.y + rect.height
    IN  IF \/ rect_x1 <= 0
           \/ rect.y >= visible_y1
           \/ rect.x > visible_x1
           \/ rect_y1 <= 0
        THEN <<>>
        ELSE LET new_x  == Max(rect.x, 0)
                 new_y  == Max(rect.y, 0)
                 new_x1 == Min(rect_x1, visible_x1)
                 new_y1 == Min(rect_y1, visible_y1)
             IN  << RectDef(new_x, new_y,
                            Max(new_x1 - new_x, 0), Max(new_y1 - new_y, 0)) >>

\* the filter_map closure of clip_and_take_visible with the right and bottom
\* edges of a kept rectangle left as they are (no min with the viewport)
clip_rect_no_min(rect, visible_x1, visible_y1) ==
    LET rect_x1 == rect.x + rect.width
        rect_y1 == rect.y + rect.height
    IN  IF \/ rect_x1 <= 0
           \/ rect.y >= visible_y1
           \/ rect.x >= visible_x1
           \/ rect_y1 <= 0
        THEN <<>>
        ELSE LET new_x  == Max(rect.x, 0)
                 new_y  == Max(rect.y, 0)
             IN  << RectDef(new_x, new_y,
                            Max(rect_x1 - new_x, 0), Max(rect_y1 - new_y, 0)) >>

\* the filter_map closure of clip_and_take_visible: <<>> for None,
\* <<r>> for Some(r)
clip_rect(rect, visible_x1, visible_y1) ==
    LET visible_x0 == 0
        visible_y0 == 0
        rect_x1 == rect.x + rect.width
        rect_y1 == rect.y + rect.height
    IN  IF \/ rect_x1 <= visible_x0
           \/ rect.y >= visible_y1
           \/ rect.x >= visible_x1
           \/ rect_y1 <= visible_y0
        THEN <<>>
        ELSE LET new_x  == Max(rect.x, visible_x0)
                 new_y  == Max(rect.y, visible_y0)
                 new_x1 == Min(rect_x1, visible_x1)
                 new_y1 == Min(rect_y1, visible_y1)
             IN  << RectDef(new_x, new_y,
                            Max(new_x1 - new_x, 0), Max(new_y1 - new_y, 0)) >>

RECURSIVE clip_and_take_visible(_, _, _)
clip_and_take_visible(rects, visible_x1, visible_y1) ==
    IF rects = <<>> THEN <<>>
    ELSE clip_rect(Head(rects), visible_x1, visible_y1)
         \o clip_and_take_visible(Tail(rects), visible_x1, visible_y1)

----------------------------------------------------------------------------
(* Text and the editor object (glyphon::Editor over a cosmic-text buffer). *)
(* A buffer is a sequence of lines, a line a sequence of characters; a      *)
(* cursor is a (line, index) pair counted from 0.                          *)

NL == "\n"

\* Buffer::set_text: one line per line break, and always a last line
RECURSIVE SplitLines(_)
SplitLines(s) ==
    IF s = <<>> THEN << <<>> >>
    ELSE IF Head(s) = NL THEN << <<>> >> \o SplitLines(Tail(s))
    ELSE Bind(SplitLines(Tail(s)),
              LAMBDA rest : << <<Head(s)>> \o Head(rest) >> \o Tail(rest))

\* the loop of get_editor_content: every line followed by a line break
RECURSIVE PushLines(_)
PushLines(lines) ==
    IF lines = <<>> THEN <<>>
    ELSE Head(lines) \o <<NL>> \o PushLines(Tail(lines))

\* if content.ends_with('\n') { content.pop(); }
pop_newline(content) ==
    IF content # <<>> /\ content[Len(content)] = NL
    THEN SubSeq(content, 1, Len(content) - 1)
    ELSE content

get_editor_content(editor) == pop_newline(PushLines(editor.lines))

Cursor(l, i) == [line |-> l, index |-> i]

\* Selection::None; Normal, Word and Line carry their anchor
NoSelection == [kind |-> "None", cursor |-> Cursor(0, 0)]
Selection(kind, anchor) == [kind |-> kind, cursor |-> anchor]

NewEditor == [lines |-> << <<>> >>, cursor |-> Cursor(0, 0), selection |-> NoSelection]

\* the line of the buffer with number l (from 0)
LineAt(lines, l) == lines[l + 1]

\* a cursor brought back into the text (the callback may have shortened it)
ClampCursor(lines, c) ==
    Cursor(Min(c.line, Len(lines) - 1),
           Min(c.index, Len(LineAt(lines, Min(c.line, Len(lines) - 1)))))

\* the offset of a cursor in the text of the buffer
RECURSIVE LineStart(_, _)
LineStart(lines, l) ==
    IF l = 0 THEN 0 ELSE LineStart(lines, l - 1) + Len(LineAt(lines, l - 1)) + 1

OffsetOf(lines, clamped) == LineStart(lines, clamped.line) + clamped.index

Offset(lines, c) == OffsetOf(lines, ClampCursor(lines, c))

RECURSIVE CursorAt(_, _, _)
CursorAt(lines, l, off) ==
    IF l = Len(lines) - 1 \/ off <= Len(LineAt(lines, l))
    THEN Cursor(l, Min(off, Len(LineAt(lines, l))))
    ELSE CursorAt(lines, l + 1, off - Len(LineAt(lines, l)) - 1)

CursorLE(a, b) == a.line < b.line \/ (a.line = b.line /\ a.index <= b.index)

BufferEnd(lines) == Cursor(Len(lines) - 1, Len(lines[Len(lines)]))

\* the bounds of a selection of the given kind between anchor and cursor;
\* the text has no word separators, so Word and Line both take whole lines
bounds_between(kind, lines, anchor, cursor) ==
    IF kind = "Normal"
    THEN IF CursorLE(anchor, cursor) THEN <<anchor, cursor>> ELSE <<cursor, anchor>>
    ELSE << Cursor(Min(anchor.line, cursor.line), 0),
            Cursor(Max(anchor.line, cursor.line),
                   Len(LineAt(lines, Max(anchor.line, cursor.line)))) >>

\* Editor::selection_bounds: None, or Some(<<start, end>>)
selection_bounds(editor) ==
    IF editor.selection.kind = "None" THEN None
    ELSE Some(bounds_between(editor.selection.kind, editor.lines,
                             ClampCursor(editor.lines, editor.selection.cursor),
                             ClampCursor(editor.lines, editor.cursor)))

\* the buffer holding `lines`, the cursor at offset `at`, nothing selected
place(lines, at) ==
    [lines |-> lines, cursor |-> CursorAt(lines, 0, at), selection |-> NoSelection]

\* the text with the characters from offset `from` up to `to` replaced by str
splice(text, from, to, str) ==
    place(SplitLines(SubSeq(text, 1, from) \o str \o SubSeq(text, to + 1, Len(text))),
          from + Len(str))

\* Editor::delete_range
delete_range(editor, bounds) ==
    splice(get_editor_content(editor), Offset(editor.lines, bounds[1]),
           Offset(editor.lines, bounds[2]), <<>>)

\* Editor::delete_selection
delete_selection(editor) ==
    IF editor.selection.kind = "None" THEN editor
    ELSE delete_range(editor, Get(selection_bounds(editor)))

\* Editor::insert_at the cursor
insert_at(editor, str) ==
    splice(get_editor_content(editor), Offset(editor.lines, editor.cursor),
           Offset(editor.lines, editor.cursor), str)

\* Editor::insert_string: the selection goes, then the text comes in
insert_string(editor, str) ==
    Bind(delete_selection(editor), LAMBDA e : insert_at(e, str))

\* Action::Backspace
backspace(editor) ==
    IF editor.selection.kind # "None" THEN delete_selection(editor)
    ELSE IF Offset(editor.lines, editor.cursor) = 0 THEN editor
    ELSE splice(get_editor_content(editor), Offset(editor.lines, editor.cursor) - 1,
                Offset(editor.lines, editor.cursor), <<>>)

\* Buffer::hit: the cursor nearest to a pixel of the text area
GlyphWidth == 4
LineHeight == 10

hit(lines, x, y) ==
    Cursor(Min(y \div LineHeight, Len(lines) - 1),
           Min((x + GlyphWidth \div 2) \div GlyphWidth,
               Len(LineAt(lines, Min(y \div LineHeight, Len(lines) - 1)))))

\* Editor::action on an editor whose cursor lies in the text
action_at(e, action) ==
    CASE action.kind = "Insert" -> insert_string(e, <<action.c>>)
      [] action.kind = "Enter" -> insert_string(e, <<NL>>)
      [] action.kind = "Backspace" -> backspace(e)
      [] action.kind = "Motion" ->      \* Motion::BufferEnd, the one motion dispatched
            [e EXCEPT !.cursor = BufferEnd(e.lines)]
      [] action.kind = "Click" ->
            [e EXCEPT !.cursor = hit(e.lines, action.x, action.y),
                      !.selection = NoSelection]
      [] action.kind = "DoubleClick" ->
            [e EXCEPT !.cursor = hit(e.lines, action.x, action.y),
                      !.selection = Selection("Word", hit(e.lines, action.x, action.y))]
      [] action.kind = "TripleClick" ->
            [e EXCEPT !.cursor = hit(e.lines, action.x, action.y),
                      !.selection = Selection("Line", hit(e.lines, action.x, action.y))]
      [] action.kind = "Drag" ->
            [e EXCEPT !.cursor = hit(e.lines, action.x, action.y),
                      !.selection = IF e.selection.kind = "None"
                                    THEN Selection("Normal", e.cursor)
                                    ELSE e.selection]
      [] OTHER -> e   \* Scroll: the scroll offset is not part of the model

\* Editor::action
EditorAction(editor, action) ==
    Bind([editor EXCEPT !.cursor = ClampCursor(editor.lines, editor.cursor)],
         LAMBDA e : action_at(e, action))

\* Editor::set_text_reactive: the buffer's text replaced, the cursor kept
set_text_reactive(editor, text) == [editor EXCEPT !.lines = SplitLines(text)]

Insert(c) == [kind |-> "Insert", c |-> c]
Backspace == [kind |-> "Backspace"]
Enter == [kind |-> "Enter"]
Motion(m) == [kind |-> "Motion", motion |-> m]
Scroll(pixels) == [kind |-> "Scroll", pixels |-> pixels]
PointAction(kind, x, y) == [kind |-> kind, x |-> x, y |-> y]

----------------------------------------------------------------------------
(* TextEditorState (text_edit_core) and the configuration.                 *)

\* TextEditorState::new
InitState ==
    [ editor |-> NewEditor,
      focused |-> FALSE,                 \* focus_handler().is_focused()
      is_dragging |-> FALSE,
      last_click_position |-> None,
      last_click_time |-> None,
      click_count |-> 0,
      preedit_string |-> None,
      current_selection_rects |-> <<>> ]

\* SyntaxEditorArgs.on_change: the builder's default, and two callbacks an
\* application may give (the identity of the showcase, and a constant)
Callbacks == {"default", "identity", "constX"}

\* every callback handing the content back
OnChange_echo(cb, content) == content

OnChange(cb, content) ==
    CASE cb = "default"  -> <<>>
      [] cb = "identity" -> content
      [] cb = "constX"   -> <<"X">>

\* SyntaxEditorArgs.padding and border_width in pixels
PaddingPx == 5
BorderWidthPx == 1

\* input.computed_data, the size of the surface
ComputedData == [width |-> 40, height |-> 30]

\* pos_misc::is_position_in_component
is_position_in_component(size, pos) ==
    /\ pos.x >= 0 /\ pos.x < size.width
    /\ pos.y >= 0 /\ pos.y < size.height

\* the recency window and the distance of the click heuristic
ClickWindow == 1
ClickDistance == 2

Abs(n) == IF n >= 0 THEN n ELSE -n

\* TextEditorState::handle_click: <<state, click type>>
handle_click(st, pos, timestamp) ==
    LET near == /\ st.last_click_time # None
                /\ st.last_click_position # None
                /\ timestamp - Get(st.last_click_time) <= ClickWindow
                /\ Abs(pos.x - Get(st.last_click_position).x)
                     + Abs(pos.y - Get(st.last_click_position).y) <= ClickDistance
        count == IF near THEN st.click_count + 1 ELSE 1
        type == CASE count = 2 -> "DoubleClick"
                  [] count = 3 -> "TripleClick"
                  [] OTHER -> "Click"
    IN  << [st EXCEPT !.click_count = IF count >= 3 THEN 0 ELSE count,
                      !.last_click_time = Some(timestamp),
                      !.last_click_position = Some(pos)],
           type >>

start_drag(st) == [st EXCEPT !.is_dragging = TRUE]
stop_drag(st) == [st EXCEPT !.is_dragging = FALSE]
request_focus(st) == [st EXCEPT !.focused = TRUE]

\* TextEditorState::map_key_event_to_action: None, or the actions of a key
map_key_event_to_action(key_event, key_modifiers) ==
    IF key_event.state # "Pressed" THEN None
    ELSE CASE key_event.kind = "Character" ->
                 IF key_modifiers.control THEN None
                 ELSE Some(<< Insert(key_event.key) >>)
           [] key_event.key = "Backspace" -> Some(<< Backspace >>)
           [] key_event.key = "Enter" -> Some(<< Enter >>)
           [] OTHER -> None

----------------------------------------------------------------------------
(* The transactional apply routine: syntax_editor.rs, handle_action.       *)
(* A pass is carried as ctx = [st, inp, log, over]: the editor state, the  *)
(* handler's input, the editor actions dispatched so far, and whether a    *)
(* text grew past MaxLen.                                                  *)

TooLong(editor) == Len(get_editor_content(editor)) > MaxLen

\* one editor action of a pass: who dispatched it, the editor before it, the
\* arguments on_change was invoked with, the content of the real buffer as
\* on_change is invoked, what on_change returned last, and the content of
\* the real buffer afterwards
Call(via, action, pre, args, real, ret, post) ==
    [via |-> via, action |-> action, pre |-> pre, args |-> args, real |-> real,
     ret |-> ret, post |-> post]

\* the pass after one editor action: `acted` is the real editor after the
\* action, `e` the editor as the action's caller leaves it
Dispatched(ctx, call, acted, e) ==
    [ctx EXCEPT !.st.editor = e,
                !.log = Append(@, call),
                !.over = @ \/ TooLong(acted) \/ TooLong(e)]

\* editor_mut().action(..) called by the dispatcher itself
direct_action(ctx, action) ==
    Bind(EditorAction(ctx.st.editor, action),
         LAMBDA e : Dispatched(ctx, Call("direct", action, ctx.st.editor, <<>>, None, <<>>,
                                         get_editor_content(e)), e, e))

\* handle_action giving on_change the content of the buffer before the action
handle_action_stale_content(ctx, action, cb) ==
    Bind(get_editor_content(ctx.st.editor), LAMBDA content :
    Bind(EditorAction(ctx.st.editor, action), LAMBDA acted :
    Bind(OnChange(cb, content), LAMBDA new_content :
    Bind(set_text_reactive(acted, new_content), LAMBDA e :
         Dispatched(ctx, Call("handle_action", action, ctx.st.editor, <<content>>,
                              Some(get_editor_content(acted)), new_content,
                              get_editor_content(e)), acted, e)))))

\* handle_action without the final set_text_reactive
handle_action_no_overwrite(ctx, action, cb) ==
    Bind(get_editor_content(EditorAction(ctx.st.editor, action)),
         LAMBDA content_after_action :
    Bind(EditorAction(ctx.st.editor, action), LAMBDA acted :
    Bind(OnChange(cb, content_after_action), LAMBDA new_content :
         Dispatched(ctx, Call("handle_action", action, ctx.st.editor,
                              <<content_after_action>>, Some(get_editor_content(acted)),
                              new_content, get_editor_content(acted)), acted, acted))))

\* handle_action applying the action with no callback and no overwrite
handle_action_direct(ctx, action, cb) == direct_action(ctx, action)

\* handle_action invoking on_change before the real editor is acted on
handle_action_callback_first(ctx, action, cb) ==
    Bind(get_editor_content(EditorAction(ctx.st.editor, action)),
         LAMBDA content_after_action :
    Bind(OnChange(cb, content_after_action), LAMBDA new_content :
    Bind(EditorAction(ctx.st.editor, action), LAMBDA acted :
    Bind(set_text_reactive(acted, new_content), LAMBDA e :
         Dispatched(ctx, Call("handle_action", action, ctx.st.editor,
                              <<content_after_action>>,
                              Some(get_editor_content(ctx.st.editor)), new_content,
                              get_editor_content(e)), acted, e)))))

handle_action(ctx, action, cb) ==
    \* new_editor.action(..) on the clone, and its content
    Bind(get_editor_content(EditorAction(ctx.st.editor, action)),
         LAMBDA content_after_action :
    \* state.editor_mut().action(..) on the real editor, then on_change(..)
    Bind(EditorAction(ctx.st.editor, action), LAMBDA acted :
    Bind(OnChange(cb, content_after_action), LAMBDA new_content :
    Bind(set_text_reactive(acted, new_content), LAMBDA e :
         Dispatched(ctx, Call("handle_action", action, ctx.st.editor,
                              <<content_after_action>>,
                              Some(get_editor_content(acted)), new_content,
                              get_editor_content(e)), acted, e)))))

\* for action in actions { handle_action(..) }
RECURSIVE handle_actions(_, _, _)
handle_actions(ctx, actions, cb) ==
    IF actions = <<>> THEN ctx
    ELSE Bind(handle_action(ctx, Head(actions), cb),
              LAMBDA next : handle_actions(next, Tail(actions), cb))

Repeat(n, x) == [i \in 1 .. n |-> x]

----------------------------------------------------------------------------
(* The input dispatcher: syntax_editor.rs, the input_handler closure.      *)

IsPressed(event) == event.content = "Pressed"
IsReleased(event) == event.content = "Released"
IsScroll(event) == event.content = "Scroll"

\* the position relative to the text: padding and border taken off
TextRelative(cursor_pos) ==
    [x |-> cursor_pos.x - PaddingPx - BorderWidthPx,
     y |-> cursor_pos.y - PaddingPx - BorderWidthPx]

\* if !focused { request_focus() }
ensure_focus(ctx) ==
    IF ~ctx.st.focused THEN [ctx EXCEPT !.st = request_focus(@)] ELSE ctx

\* handle_click, the click action of its type, start_drag
click_at(ctx, text_relative_pos, timestamp) ==
    Bind(handle_click(ctx.st, text_relative_pos, timestamp), LAMBDA clicked :
    Bind(direct_action([ctx EXCEPT !.st = clicked[1]],
                       PointAction(clicked[2], text_relative_pos.x, text_relative_pos.y)),
         LAMBDA acted : [acted EXCEPT !.st = start_drag(@)]))

\* the press handled without the test of the text-relative position
press_handling_unchecked(ctx) ==
    IF SelectSeq(ctx.inp.cursor_events, IsPressed) = <<>> THEN ctx
    ELSE IF ctx.inp.cursor_position_rel = None THEN ensure_focus(ctx)
    ELSE click_at(ensure_focus(ctx), TextRelative(Get(ctx.inp.cursor_position_rel)),
                  SelectSeq(ctx.inp.cursor_events, IsPressed)[1].timestamp)

\* the click classified with the timestamp of the last press event
press_handling_last_press(ctx) ==
    IF SelectSeq(ctx.inp.cursor_events, IsPressed) = <<>> THEN ctx
    ELSE IF ctx.inp.cursor_position_rel = None THEN ensure_focus(ctx)
    ELSE IF /\ TextRelative(Get(ctx.inp.cursor_position_rel)).x >= 0
            /\ TextRelative(Get(ctx.inp.cursor_position_rel)).y >= 0
         THEN click_at(ensure_focus(ctx), TextRelative(Get(ctx.inp.cursor_position_rel)),
                       SelectSeq(ctx.inp.cursor_events, IsPressed)[
                           Len(SelectSeq(ctx.inp.cursor_events, IsPressed))].timestamp)
         ELSE ensure_focus(ctx)

\* if !click_events.is_empty() { .. }
press_handling(ctx) ==
    IF SelectSeq(ctx.inp.cursor_events, IsPressed) = <<>> THEN ctx
    ELSE IF ctx.inp.cursor_position_rel = None THEN ensure_focus(ctx)
    ELSE IF /\ TextRelative(Get(ctx.inp.cursor_position_rel)).x >= 0
            /\ TextRelative(Get(ctx.inp.cursor_position_rel)).y >= 0
         THEN click_at(ensure_focus(ctx), TextRelative(Get(ctx.inp.cursor_position_rel)),
                       SelectSeq(ctx.inp.cursor_events, IsPressed)[1].timestamp)
         ELSE ensure_focus(ctx)

\* Action::Drag and update_last_click_position
drag_to(ctx, current_pos_px) ==
    Bind(direct_action(ctx, PointAction("Drag", current_pos_px.x, current_pos_px.y)),
         LAMBDA acted : [acted EXCEPT !.st.last_click_position = Some(current_pos_px)])

\* the drag dispatched whatever the last recorded position
drag_handling_repeat(ctx) ==
    IF /\ ctx.st.is_dragging
       /\ ctx.inp.cursor_position_rel # None
       /\ TextRelative(Get(ctx.inp.cursor_position_rel)).x >= 0
       /\ TextRelative(Get(ctx.inp.cursor_position_rel)).y >= 0
    THEN drag_to(ctx, TextRelative(Get(ctx.inp.cursor_position_rel)))
    ELSE ctx

\* if is_dragging() && let Some(cursor_pos) = cursor_pos_option { .. }
drag_handling(ctx) ==
    IF /\ ctx.st.is_dragging
       /\ ctx.inp.cursor_position_rel # None
       /\ TextRelative(Get(ctx.inp.cursor_position_rel)).x >= 0
       /\ TextRelative(Get(ctx.inp.cursor_position_rel)).y >= 0
       /\ ctx.st.last_click_position
            # Some(TextRelative(Get(ctx.inp.cursor_position_rel)))
    THEN drag_to(ctx, TextRelative(Get(ctx.inp.cursor_position_rel)))
    ELSE ctx

\* if !release_events.is_empty() { stop_drag() }
release_handling(ctx) ==
    IF SelectSeq(ctx.inp.cursor_events, IsReleased) # <<>>
    THEN [ctx EXCEPT !.st = stop_drag(@)]
    ELSE ctx

\* for scroll_event in scroll_events { .. }
RECURSIVE scroll_actions(_, _)
scroll_actions(ctx, scroll_events) ==
    IF scroll_events = <<>> THEN ctx
    ELSE Bind(direct_action(ctx, Scroll(-Head(scroll_events).delta_y)),
              LAMBDA next : scroll_actions(next, Tail(scroll_events)))

\* the scroll events dispatched whatever the focus
scroll_handling_unfocused(ctx) ==
    scroll_actions(ctx, SelectSeq(ctx.inp.cursor_events, IsScroll))

\* if focused { for scroll_event in scroll_events { .. } }
scroll_handling(ctx) ==
    IF ctx.st.focused
    THEN scroll_actions(ctx, SelectSeq(ctx.inp.cursor_events, IsScroll))
    ELSE ctx

\* if focused { input.cursor_events.clear() }
capture_pointer(ctx) ==
    IF ctx.st.focused THEN [ctx EXCEPT !.inp.cursor_events = <<>>] ELSE ctx

\* the block "if is_cursor_in_editor { .. }"
pointer_stage(ctx) ==
    Bind(Bind(Bind(Bind(press_handling(ctx), drag_handling), release_handling),
              scroll_handling), capture_pointer)

ToLower(s) == IF s = "A" THEN "a" ELSE s

is_select_all(key_event, is_ctrl) ==
    /\ key_event.kind = "Character"
    /\ is_ctrl
    /\ ToLower(key_event.key) = "a"
    /\ key_event.state = "Pressed"

\* input.keyboard_events.iter().position(..) finds an event
select_all_event(inp) ==
    \E i \in DOMAIN inp.keyboard_events :
        is_select_all(inp.keyboard_events[i],
                      inp.key_modifiers.control \/ inp.key_modifiers.super)

\* the special case moving the cursor only, no selection set
select_all_unanchored(ctx) ==
    direct_action([ctx EXCEPT !.st.editor.cursor = Cursor(0, 0)], Motion("BufferEnd"))

\* set_cursor, set_selection and Motion::BufferEnd, on the editor itself
select_all(ctx) ==
    direct_action([ctx EXCEPT !.st.editor.cursor = Cursor(0, 0),
                              !.st.editor.selection = Selection("Normal", Cursor(0, 0))],
                  Motion("BufferEnd"))

RECURSIVE all_actions(_, _)
all_actions(keyboard_events, key_modifiers) ==
    IF keyboard_events = <<>> THEN <<>>
    ELSE UnwrapOr(map_key_event_to_action(Head(keyboard_events), key_modifiers), <<>>)
         \o all_actions(Tail(keyboard_events), key_modifiers)

\* the select-all special case or the mapped keys, then keyboard_events.clear()
keyboard_events_handling(ctx, cb) ==
    Bind(IF select_all_event(ctx.inp) THEN select_all(ctx)
         ELSE handle_actions(ctx, all_actions(ctx.inp.keyboard_events,
                                              ctx.inp.key_modifiers), cb),
         LAMBDA handled : [handled EXCEPT !.inp.keyboard_events = <<>>])

Inserts(text) == [i \in 1 .. Len(text) |-> Insert(text[i])]

\* if let Some(preedit_text) = state.preedit_string.take() { Backspace .. }
take_preedit(ctx, cb) ==
    IF ctx.st.preedit_string # None
    THEN handle_actions([ctx EXCEPT !.st.preedit_string = None],
                        Repeat(Len(Get(ctx.st.preedit_string)), Backspace), cb)
    ELSE ctx

\* Ime::Commit without the retraction of the preedit
commit_handling_no_retract(ctx, text, cb) == handle_actions(ctx, Inserts(text), cb)

\* Ime::Commit(text)
commit_handling(ctx, text, cb) ==
    Bind(take_preedit(ctx, cb), LAMBDA taken : handle_actions(taken, Inserts(text), cb))

\* Ime::Preedit without the retraction of the previous preedit
preedit_handling_append(ctx, text, cb) ==
    Bind(handle_actions([ctx EXCEPT !.st.preedit_string = None], Inserts(text), cb),
         LAMBDA inserted : [inserted EXCEPT !.st.preedit_string = Some(text)])

\* Ime::Preedit(text, _)
preedit_handling(ctx, text, cb) ==
    Bind(take_preedit(ctx, cb), LAMBDA taken :
    Bind(handle_actions(taken, Inserts(text), cb),
         LAMBDA inserted : [inserted EXCEPT !.st.preedit_string = Some(text)]))

\* one iteration of "for event in ime_events { .. }"
ime_event_handling(ctx, event, cb) ==
    CASE event.kind = "Commit" -> commit_handling(ctx, event.text, cb)
      [] event.kind = "Preedit" -> preedit_handling(ctx, event.text, cb)
      [] OTHER -> ctx

RECURSIVE ime_events_handling(_, _, _)
ime_events_handling(ctx, ime_events, cb) ==
    IF ime_events = <<>> THEN ctx
    ELSE Bind(ime_event_handling(ctx, Head(ime_events), cb),
              LAMBDA next : ime_events_handling(next, Tail(ime_events), cb))

\* input.ime_events.drain(..), the loop over the events, and the IME request
ime_stage(ctx, cb) ==
    Bind(ime_events_handling([ctx EXCEPT !.inp.ime_events = <<>>],
                             ctx.inp.ime_events, cb),
         LAMBDA composed :
             [composed EXCEPT !.inp.requests.ime_request = Some(ComputedData)])

\* the keyboard and IME block entered whatever the focus state
keyboard_stage_unguarded(ctx, cb) ==
    Bind(keyboard_events_handling(ctx, cb), LAMBDA keyed : ime_stage(keyed, cb))

\* the block "if focus_handler().is_focused() { .. }"
keyboard_stage(ctx, cb) ==
    IF ctx.st.focused
    THEN Bind(keyboard_events_handling(ctx, cb), LAMBDA keyed : ime_stage(keyed, cb))
    ELSE ctx

is_cursor_in_editor(inp) ==
    /\ inp.cursor_position_rel # None
    /\ is_position_in_component(ComputedData, Get(inp.cursor_position_rel))

\* the pointer block entered wherever the pointer is
hover_and_pointer_anywhere(ctx) ==
    pointer_stage([ctx EXCEPT !.inp.requests.cursor_icon = "Text"])

\* the two statements "if is_cursor_in_editor { .. }"
hover_and_pointer(ctx) ==
    IF is_cursor_in_editor(ctx.inp)
    THEN pointer_stage([ctx EXCEPT !.inp.requests.cursor_icon = "Text"])
    ELSE ctx

\* the input_handler closure: the pass from the state st and the input inp
input_handler(st, inp, cb) ==
    Bind(hover_and_pointer([st |-> st, inp |-> inp, log |-> <<>>, over |-> FALSE]),
         LAMBDA pointed : keyboard_stage(pointed, cb))

----------------------------------------------------------------------------
(* The measurement pass: syntax_edit_core.rs, the measure closure.         *)

\* LayoutRun::highlight of the run of line l: None, or Some(<<x, w>>). Every
\* line is one run of glyphs GlyphWidth wide; a glyph edge is highlighted
\* when its cursor lies between the selection's bounds.
highlighted_edges(l, line, selection_start, selection_end) ==
    { p \in 0 .. Len(line) : /\ CursorLE(selection_start, Cursor(l, p))
                             /\ CursorLE(Cursor(l, p), selection_end) }

SetMin(S) == CHOOSE p \in S : \A q \in S : p <= q
SetMax(S) == CHOOSE p \in S : \A q \in S : q <= p

highlight_of(line, edges) ==
    IF line = <<>> \/ edges = {} THEN None
    ELSE Some(<< SetMin(edges) * GlyphWidth, (SetMax(edges) - SetMin(edges)) * GlyphWidth >>)

highlight(l, line, selection_start, selection_end) ==
    highlight_of(line, highlighted_edges(l, line, selection_start, selection_end))

\* if let Some((x, w)) = run.highlight(..) { selection_rects.push(..) }
push_rect(xw, line_top, line_height) ==
    IF xw # None THEN << RectDef(Get(xw)[1], line_top, Get(xw)[2], line_height) >>
    ELSE <<>>

\* for run in buffer.layout_runs() { .. }, from line l on
RECURSIVE selection_rects_from(_, _, _)
selection_rects_from(lines, l, bounds) ==
    IF l >= Len(lines) THEN <<>>
    ELSE push_rect(highlight(l, LineAt(lines, l), bounds[1], bounds[2]),
                   l * LineHeight, LineHeight)
         \o selection_rects_from(lines, l + 1, bounds)

compute_selection_rects(editor) ==
    selection_rects_from(editor.lines, 0,
                         UnwrapOr(selection_bounds(editor), <<Cursor(0, 0), Cursor(0, 0)>>))

\* the match on a DimensionValue: None, or the maximum in pixels
max_pixels(dimension) ==
    IF dimension.kind = "Fixed" THEN Some(dimension.value) ELSE dimension.max

\* the outcome of a measurement pass: the state it leaves, whether it got
\* as far as storing rectangles, and the viewport it resolved
Measured(st, stored, visible_x1, visible_y1) ==
    [st |-> st, stored |-> stored, x1 |-> visible_x1, y1 |-> visible_y1]

\* the children built from the state: one per stored rectangle, and the
\* cursor when focused
children_ids(st) == Len(st.current_selection_rects) + (IF st.focused THEN 1 ELSE 0)

\* the measure closure storing the rectangles as computed, not clipped
measure_store_unclipped(st, parent_constraint, fails) ==
    Measured([st EXCEPT !.current_selection_rects = compute_selection_rects(st.editor)],
             TRUE,
             UnwrapOr(max_pixels(parent_constraint.width), I32_MAX),
             UnwrapOr(max_pixels(parent_constraint.height), I32_MAX))

\* the closure from the child loop on, the viewport resolved
measure_rects(st, selection_rects, visible_x1, visible_y1, fails) ==
    IF fails = "rect" /\ selection_rects # <<>> /\ children_ids(st) > 0
    THEN Measured(st, FALSE, visible_x1, visible_y1)
    ELSE Measured([st EXCEPT !.current_selection_rects =
                       clip_and_take_visible(selection_rects, visible_x1, visible_y1)],
                  TRUE, visible_x1, visible_y1)

\* the measure closure. `fails` is the measure_child call that returns an
\* error: "rect" (the first rectangle child), "cursor" or "none"
measure(st, parent_constraint, fails) ==
    Bind(compute_selection_rects(st.editor), LAMBDA selection_rects :
         measure_rects(st, selection_rects,
                       UnwrapOr(max_pixels(parent_constraint.width), I32_MAX),
                       UnwrapOr(max_pixels(parent_constraint.height), I32_MAX),
                       fails))

\* cursor::CURSOR_WIDRH, the width of the cursor glyph, in pixels
CURSOR_WIDRH == 2

RECURSIVE widest(_)
widest(lines) ==
    IF lines = <<>> THEN 0 ELSE Max(Len(Head(lines)), widest(Tail(lines)))

\* TextEditorState::text_data: the shaped text, every line one run of glyphs
text_data(editor) ==
    [size |-> << widest(editor.lines) * GlyphWidth, Len(editor.lines) * LineHeight >>]

\* "if let Some(cb) = &highlighter_clone { cb(); }"
run_highlighter(highlighter) ==
    IF highlighter # None THEN <<"highlighter">> ELSE <<>>

\* the closure after the rectangles are stored: the cursor child, when the
\* children reach the index selection_rects_len, and the draw command
cursor_and_draw(selection_rects_len, children, fails) ==
    IF children > selection_rects_len
    THEN IF fails = "cursor" THEN <<"measure_child", "Err">>
         ELSE <<"measure_child", "TextCommand", "Ok">>
    ELSE <<"TextCommand", "Ok">>

\* the closure from the child loop on: a measure_child call for every
\* rectangle that has a child, then clipping, storing, cursor and drawing
children_and_draw(selection_rects_len, children, fails) ==
    IF fails = "rect" /\ selection_rects_len > 0 /\ children > 0
    THEN <<"measure_child", "Err">>
    ELSE Repeat(Min(selection_rects_len, children), "measure_child")
         \o <<"clip_and_take_visible", "store">>
         \o cursor_and_draw(selection_rects_len, children, fails)

\* the closure with the layout query ahead of the highlighter hook
measure_steps_shape_first(st, highlighter, fails) ==
    <<"text_data">> \o run_highlighter(highlighter) \o <<"compute_selection_rects">>
    \o children_and_draw(Len(compute_selection_rects(st.editor)), children_ids(st), fails)

\* the calls of the measure closure, in the order it makes them
measure_steps(st, highlighter, fails) ==
    run_highlighter(highlighter) \o <<"text_data", "compute_selection_rects">>
    \o children_and_draw(Len(compute_selection_rects(st.editor)), children_ids(st), fails)

\* the height reported whatever the maximum height
constrained_height_unclamped(size, max_height_pixels) == size[2]

\* "if let Some(max_h) = max_height_pixels { size[1].min(max_h.abs()) } else { size[1] }"
constrained_height(size, max_height_pixels) ==
    IF max_height_pixels # None THEN Min(size[2], Abs(Get(max_height_pixels)))
    ELSE size[2]

\* Ok(ComputedData { width, height })
computed_data(size, max_height_pixels) ==
    [width |-> size[1] + CURSOR_WIDRH,
     height |-> constrained_height(size, max_height_pixels)]

\* the selection highlight quads syntax_edit_core builds from the stored
\* rectangles: their widths and heights
selection_highlight_quads(st) ==
    [i \in 1 .. Len(st.current_selection_rects) |->
        << st.current_selection_rects[i].width, st.current_selection_rects[i].height >>]

\* Editor::cursor_position: the pixel position of the cursor
cursor_position(editor) ==
    Some(<< ClampCursor(editor.lines, editor.cursor).index * GlyphWidth,
            ClampCursor(editor.lines, editor.cursor).line * LineHeight >>)

\* one place_child call: the index of the child in children_ids, the
\* position, and the statement that placed it (the rectangle loop or the
\* cursor block)
Placed(index, position, by) == [child |-> index, at |-> position, by |-> by]

\* "for (i, rect_def) in selection_rects.iter().enumerate()": the child at
\* index i, if there is one, placed at rectangle i
rect_places(selection_rects, children, fails) ==
    IF fails = "rect" /\ selection_rects # <<>> /\ children > 0 THEN <<>>
    ELSE [i \in 1 .. Min(Len(selection_rects), children) |->
             Placed(i - 1, <<selection_rects[i].x, selection_rects[i].y>>, "rect")]

\* the child at index selection_rects_len, if there is one, placed at the
\* cursor position
cursor_place(editor, selection_rects_len, children, fails) ==
    IF \/ fails = "rect" /\ selection_rects_len > 0 /\ children > 0
       \/ fails = "cursor"
       \/ cursor_position(editor) = None
       \/ children <= selection_rects_len
    THEN <<>>
    ELSE << Placed(selection_rects_len, Get(cursor_position(editor)), "cursor") >>

\* one frame of syntax_edit_core: the children built from the state, then
\* the measure closure run on it
Measurement(st, parent_constraint, highlighter, fails, steps) ==
    [ constraint |-> parent_constraint,
      selection_rects |-> compute_selection_rects(st.editor),
      placed |-> rect_places(compute_selection_rects(st.editor), children_ids(st), fails)
                 \o cursor_place(st.editor, Len(compute_selection_rects(st.editor)),
                                 children_ids(st), fails),
      highlighter |-> highlighter,
      focused |-> st.focused,
      quads |-> selection_highlight_quads(st),
      size |-> text_data(st.editor).size,
      steps |-> steps,
      result |-> IF steps[Len(steps)] = "Ok"
                 THEN Some(computed_data(text_data(st.editor).size,
                                         max_pixels(parent_constraint.height)))
                 ELSE None ]

syntax_edit_core(st, parent_constraint, highlighter, fails) ==
    Measurement(st, parent_constraint, highlighter, fails,
                measure_steps(st, highlighter, fails))

Fixed(px) == [kind |-> "Fixed", value |-> px, max |-> None]
Wrap(max) == [kind |-> "Wrap", value |-> 0, max |-> max]
Fill(max) == [kind |-> "Fill", value |-> 0, max |-> max]

----------------------------------------------------------------------------
(* The styled container: SyntaxEditorArgs, its presets and setters, and    *)
(* create_surface_args. A Dp is an integer, a colour a name.               *)

WHITE == "WHITE"                \* Color::WHITE
GRAY70 == "GRAY70"              \* Color::new(0.7, 0.7, 0.7, 1.0)
GRAY95 == "GRAY95"              \* Color::new(0.95, 0.95, 0.95, 1.0)
BLUE == "BLUE"                  \* Color::new(0.0, 0.5, 1.0, 1.0)

\* Shape::RoundedRectangle with the four corners of one radius
RoundedRectangle(radius) == [kind |-> "RoundedRectangle", radius |-> radius]

\* SyntaxEditorArgsBuilder::default().build(): the defaults of the fields
DefaultArgs ==
    [ min_width |-> None,
      background_color |-> None,
      border_width |-> 1,
      border_color |-> None,
      shape |-> RoundedRectangle(4),
      padding |-> 5,
      focus_border_color |-> None,
      focus_background_color |-> None ]

with_background_color(args, color) == [args EXCEPT !.background_color = Some(color)]
with_border_width(args, width) == [args EXCEPT !.border_width = width]
with_border_color(args, color) == [args EXCEPT !.border_color = Some(color)]
with_focus_border_color(args, color) == [args EXCEPT !.focus_border_color = Some(color)]
with_focus_background_color(args, color) ==
    [args EXCEPT !.focus_background_color = Some(color)]

simple ==
    [DefaultArgs EXCEPT !.min_width = Some(120),
                        !.background_color = Some(WHITE),
                        !.border_width = 1,
                        !.border_color = Some(GRAY70),
                        !.shape = RoundedRectangle(0)]

outlined == with_focus_border_color(with_border_width(simple, 1), BLUE)

minimal ==
    [DefaultArgs EXCEPT !.min_width = Some(120),
                        !.background_color = Some(WHITE),
                        !.shape = RoundedRectangle(0)]

\* Option::or
Or(option, other) == IF option # None THEN option ELSE other

determine_background_color(args, focused) ==
    IF focused
    THEN UnwrapOr(Or(args.focus_background_color, args.background_color), WHITE)
    ELSE UnwrapOr(args.background_color, GRAY95)

determine_border_color(args, focused) ==
    IF focused
    THEN Or(Or(args.focus_border_color, args.border_color), Some(BLUE))
    ELSE Or(args.border_color, Some(GRAY70))

create_surface_args(args, focused) ==
    [ style |-> IF args.border_width > 0
                THEN [kind |-> "FilledOutlined",
                      fill_color |-> determine_background_color(args, focused),
                      border_color |-> Get(determine_border_color(args, focused)),
                      border_width |-> args.border_width]
                ELSE [kind |-> "Filled",
                      color |-> determine_background_color(args, focused)],
      shape |-> args.shape,
      padding |-> args.padding ]

----------------------------------------------------------------------------
(* The steps of an editor instance over its lifetime: Dispatch is one      *)
(* input-dispatch pass, Propagate the toolkit carrying the pass's input on *)
(* to the other handlers, Measure one measurement pass, Unfocus another    *)
(* component taking the focus. The specifications below differ in the      *)
(* inputs their passes draw.                                               *)

\* latest timestamp of a pointer event, in units of the double-click window
MaxTime == 1

NoClip == [rects |-> <<>>, x1 |-> 0, y1 |-> 0, out |-> <<>>, done |-> FALSE]
NoInput == [given |-> None, left |-> None, before |-> None]
NoFrame == [x1 |-> 0, y1 |-> 0]
NoSurface == [args |-> DefaultArgs, focused |-> FALSE, out |-> None]
NoTxn == [pc |-> "idle", event |-> None, queue |-> <<>>, start |-> None, done |-> <<>>,
          new_editor |-> None, content |-> None, new_content |-> None,
          seen |-> None, seen_at |-> "idle"]

Pressed(t) == [content |-> "Pressed", timestamp |-> t, delta_y |-> 0]
Released(t) == [content |-> "Released", timestamp |-> t, delta_y |-> 0]
Scrolled(t, dy) == [content |-> "Scroll", timestamp |-> t, delta_y |-> dy]

Key(kind, key, st) == [kind |-> kind, key |-> key, state |-> st]
Ime(kind, text) == [kind |-> kind, text |-> text]

NoModifiers == [control |-> FALSE, super |-> FALSE]
Control == [control |-> TRUE, super |-> FALSE]
Super == [control |-> FALSE, super |-> TRUE]

Inp(pos, cursor_events, keyboard_events, key_modifiers, ime_events) ==
    [ cursor_position_rel |-> pos,
      cursor_events |-> cursor_events,
      keyboard_events |-> keyboard_events,
      key_modifiers |-> key_modifiers,
      ime_events |-> ime_events,
      requests |-> [cursor_icon |-> "Default", ime_request |-> None] ]

\* pointer positions: outside the surface, on its padding, on the first
\* character, and past the end of the first line
PosOutside == Some([x |-> -1, y |-> 8])
PosPadding == Some([x |-> 3, y |-> 8])
PosStart == Some([x |-> 6, y |-> 6])
PosFar == Some([x |-> 30, y |-> 6])
Positions == {None, PosOutside, PosPadding, PosStart, PosFar}

\* the clock does not run backwards past the last recorded click
Times(st) ==
    { t \in 0 .. MaxTime : st.last_click_time = None \/ t >= Get(st.last_click_time) }

KeyA == Key("Character", "a", "Pressed")
KeyBackspace == Key("Named", "Backspace", "Pressed")
KeyEnter == Key("Named", "Enter", "Pressed")

PreeditA == Ime("Preedit", <<"a">>)
PreeditAB == Ime("Preedit", <<"a", "b">>)
PreeditABC == Ime("Preedit", <<"a", "b", "c">>)
CommitAB == Ime("Commit", <<"a", "b">>)

Init ==
    /\ clip = NoClip
    /\ state = InitState
    /\ on_change \in Callbacks
    /\ input = NoInput
    /\ calls = <<>>
    /\ frame = NoFrame
    /\ surface = NoSurface
    /\ txn = NoTxn

DispatchOn(inputs) ==
    /\ input = NoInput
    /\ \E inp \in inputs :
        \E pass \in { input_handler(state, inp, on_change) } :
            /\ ~pass.over
            /\ state' = pass.st
            /\ input' = [given |-> Some(inp), left |-> Some(pass.inp),
                          before |-> Some(state)]
            /\ calls' = pass.log
            /\ UNCHANGED <<txn, surface, clip, on_change, frame>>

Propagate ==
    /\ input # NoInput
    /\ input' = NoInput
    /\ calls' = <<>>
    /\ UNCHANGED <<txn, surface, clip, state, on_change, frame>>

MeasureOn(constraints) ==
    /\ input = NoInput
    /\ \E parent_constraint \in constraints, fails \in {"none", "rect", "cursor"} :
        \E pass \in { measure(state, parent_constraint, fails) } :
            /\ state' = pass.st
            /\ frame' = IF pass.stored THEN [x1 |-> pass.x1, y1 |-> pass.y1] ELSE frame
            /\ UNCHANGED <<txn, surface, clip, on_change, input, calls>>

\* another component requests the focus
Unfocus ==
    /\ input = NoInput
    /\ state.focused
    /\ state' = [state EXCEPT !.focused = FALSE]
    /\ UNCHANGED <<txn, surface, clip, on_change, input, calls, frame>>

----------------------------------------------------------------------------
(* Specification Spec: the input dispatcher. Passes with pointer events    *)
(* at every position, and passes with keys and IME events with the         *)
(* pointer absent, outside and inside.                                     *)

PointerLists(st) ==
    {<<>>, <<Released(MaxTime)>>, <<Scrolled(MaxTime, 3)>>}
    \cup { <<Pressed(t)>> : t \in Times(st) }
    \cup { <<Pressed(t), Released(t)>> : t \in Times(st) }

KeyLists == {<<KeyA>>, <<KeyBackspace>>}
ImeLists == {<<PreeditA>>, <<PreeditAB>>, <<PreeditABC>>, <<CommitAB>>}

Inputs(st) ==
    { Inp(pos, ptr, <<>>, NoModifiers, <<>>) :
          pos \in Positions, ptr \in PointerLists(st) }
    \cup { Inp(pos, <<>>, keys, NoModifiers, <<>>) :
          pos \in {None, PosStart}, keys \in KeyLists }
    \cup { Inp(pos, <<>>, <<>>, NoModifiers, ime) :
          pos \in {None, PosStart}, ime \in ImeLists }
    \cup { Inp(PosStart, <<Pressed(MaxTime)>>, <<KeyA>>, NoModifiers, <<CommitAB>>),
           Inp(None, <<>>, <<>>, NoModifiers, <<PreeditAB, PreeditABC>>),
           Inp(PosOutside, <<Released(MaxTime)>>, <<KeyA>>, NoModifiers, <<>>),
           Inp(None, <<>>, <<KeyA>>, Control, <<>>),
           Inp(None, <<>>, <<Key("Character", "A", "Pressed"), KeyBackspace>>, Super, <<>>) }

Dispatch == DispatchOn(Inputs(state))

Next == Dispatch \/ Propagate \/ Unfocus

Spec == Init /\ [][Next]_vars

----------------------------------------------------------------------------
(* Specification SpecFrame: measurement passes between dispatch passes     *)
(* that type, break lines and select, under the showcase's callback.       *)

\* parent constraints: unbounded, narrower than two glyphs, lower than a
\* line, and negative
Constraints ==
    { [width |-> Fill(None), height |-> Wrap(None)],
      [width |-> Fixed(GlyphWidth), height |-> Wrap(None)],
      [width |-> Wrap(Some(2 * GlyphWidth - 1)), height |-> Fixed(LineHeight \div 2)],
      [width |-> Fill(None), height |-> Fill(Some(-1))] }

FrameInputs ==
    { Inp(pos, ptr, <<>>, NoModifiers, <<>>) :
          pos \in {PosStart, PosFar},
          ptr \in {<<>>, <<Pressed(0)>>, <<Released(0)>>} }
    \cup { Inp(None, <<>>, <<KeyA>>, NoModifiers, <<>>),
           Inp(None, <<>>, <<KeyEnter>>, NoModifiers, <<>>),
           Inp(None, <<>>, <<KeyA>>, Control, <<>>) }

InitFrame ==
    /\ clip = NoClip
    /\ state = InitState
    /\ on_change = "identity"
    /\ input = NoInput
    /\ calls = <<>>
    /\ frame = NoFrame
    /\ surface = NoSurface
    /\ txn = NoTxn

DispatchFrame == DispatchOn(FrameInputs)

Measure == MeasureOn(Constraints)

NextFrame == DispatchFrame \/ Propagate \/ Measure

SpecFrame == InitFrame /\ [][NextFrame]_vars

----------------------------------------------------------------------------
(* Specification SpecMeasure: whole frames of syntax_edit_core, with and   *)
(* without a highlighter, between dispatch passes that type, break lines,  *)
(* select and take the focus.                                              *)

Highlighters == {None, Some("syntect")}

MeasureInputs ==
    { Inp(PosStart, <<Pressed(0)>>, <<>>, NoModifiers, <<>>),
      Inp(None, <<>>, <<KeyA>>, NoModifiers, <<>>),
      Inp(None, <<>>, <<KeyEnter>>, NoModifiers, <<>>),
      Inp(None, <<>>, <<KeyA>>, Control, <<>>) }

NoMeasurement ==
    [ constraint |-> [width |-> Wrap(None), height |-> Wrap(None)],
      selection_rects |-> <<>>, placed |-> <<>>,
      highlighter |-> None, focused |-> FALSE, quads |-> <<>>,
      size |-> <<0, 0>>, steps |-> <<>>, result |-> None ]

InitMeasure ==
    /\ clip = NoClip
    /\ state = InitState
    /\ on_change = "identity"
    /\ input = NoInput
    /\ calls = <<>>
    /\ frame = NoMeasurement
    /\ surface = NoSurface
    /\ txn = NoTxn

DispatchMeasure == frame = NoMeasurement /\ DispatchOn(MeasureInputs)

\* one frame: the component function builds the children, the toolkit then
\* runs the measure closure
Frame ==
    /\ input = NoInput
    /\ frame = NoMeasurement
    /\ surface = NoSurface
    /\ txn = NoTxn
    /\ \E parent_constraint \in Constraints, highlighter \in Highlighters,
          fails \in {"none", "rect", "cursor"} :
            /\ frame' = syntax_edit_core(state, parent_constraint, highlighter, fails)
            /\ state' = measure(state, parent_constraint, fails).st
            /\ UNCHANGED <<txn, surface, clip, on_change, input, calls>>

\* the toolkit renders the frame
Present ==
    /\ frame # NoMeasurement
    /\ frame' = NoMeasurement
    /\ UNCHANGED <<txn, surface, clip, state, on_change, input, calls>>

NextMeasure == DispatchMeasure \/ Propagate \/ Frame \/ Present

SpecMeasure == InitMeasure /\ [][NextMeasure]_vars

----------------------------------------------------------------------------
(* Specification SpecSurface: create_surface_args as a pure function.      *)
(* Init draws a preset, With applies a setter of SyntaxEditorArgs, Focus   *)
(* changes the focus, Surface builds the surface arguments.                *)

\* widest border a setter gives
MaxBorder == 2

Presets == {DefaultArgs, simple, outlined, minimal}
Colors == {WHITE, "RED"}

InitSurface ==
    /\ clip = NoClip
    /\ state = InitState
    /\ on_change = "identity"
    /\ input = NoInput
    /\ calls = <<>>
    /\ frame = NoFrame
    /\ surface \in [args : Presets, focused : {FALSE}, out : {None}]
    /\ txn = NoTxn

With ==
    /\ surface.out = None
    /\ \E color \in Colors, width \in 0 .. MaxBorder :
        \E args \in { with_background_color(surface.args, color),
                      with_border_width(surface.args, width),
                      with_border_color(surface.args, color),
                      with_focus_border_color(surface.args, color),
                      with_focus_background_color(surface.args, color) } :
            surface' = [surface EXCEPT !.args = args]
    /\ UNCHANGED <<txn, clip, state, on_change, input, calls, frame>>

Focus ==
    /\ surface' = [surface EXCEPT !.focused = ~@, !.out = None]
    /\ UNCHANGED <<txn, clip, state, on_change, input, calls, frame>>

Surface ==
    /\ surface.out = None
    /\ surface' = [surface EXCEPT
                       !.out = Some(create_surface_args(surface.args, surface.focused))]
    /\ UNCHANGED <<txn, clip, state, on_change, input, calls, frame>>

NextSurface == With \/ Focus \/ Surface

SpecSurface == InitSurface /\ [][NextSurface]_vars

----------------------------------------------------------------------------
(* Specification SpecLock: the key block and the IME iterations of the     *)
(* input handler statement by statement, under the write lock of the       *)
(* Editor State, beside a reader of the Editor State (the measure closure, *)
(* the highlighter). txn.pc is the position of the block: "idle" outside   *)
(* it, "locked" with the guard taken, then "cloned", "simulated", "acted"  *)
(* and "called" after the statements of handle_action.                     *)

\* the key lists and IME events of the blocks
LockKeyLists == {<<KeyA>>, <<KeyBackspace>>, <<KeyA, KeyEnter>>}
LockImeEvents == {PreeditA, PreeditAB, CommitAB}

\* the lock released while on_change runs
write_lock_dropped_for_callback(pc) == pc \notin {"idle", "acted"}

\* "let mut state = state_for_handler.write();": the guard lives to the end
\* of its block, handle_action borrowing the state from it
write_lock_held(pc) == pc # "idle"

InitLock ==
    /\ clip = NoClip
    /\ state = request_focus(InitState)
    /\ on_change \in Callbacks
    /\ input = NoInput
    /\ calls = <<>>
    /\ frame = NoFrame
    /\ surface = NoSurface
    /\ txn = NoTxn

\* the guard taken, with the actions the block is about to apply: those of
\* the mapped keys, or those of one IME event, its preedit taken
Acquire ==
    /\ ~write_lock_held(txn.pc)
    /\ state.focused
    /\ \/ \E keys \in LockKeyLists :
            /\ txn' = [txn EXCEPT !.pc = "locked", !.event = None,
                                  !.queue = all_actions(keys, NoModifiers),
                                  !.start = Some(state.editor), !.done = <<>>]
            /\ UNCHANGED state
       \/ \E event \in LockImeEvents :
            /\ txn' = [txn EXCEPT !.pc = "locked", !.event = Some(event),
                                  !.queue = (IF state.preedit_string # None
                                             THEN Repeat(Len(Get(state.preedit_string)),
                                                         Backspace)
                                             ELSE <<>>) \o Inserts(event.text),
                                  !.start = Some(state.editor), !.done = <<>>]
            /\ state' = [state EXCEPT !.preedit_string = None]
    /\ Len(get_editor_content(state.editor)) + Len(txn'.queue) <= MaxLen
    /\ UNCHANGED <<surface, clip, on_change, input, calls, frame>>

\* the next statement of handle_action on the action at the head of the queue
HandleActionStep ==
    /\ \/ txn.pc \in {"cloned", "simulated", "acted", "called"}
       \/ (txn.pc = "locked" /\ txn.queue # <<>>)
    /\ txn' = CASE txn.pc = "locked" ->
                      [txn EXCEPT !.pc = "cloned", !.new_editor = Some(state.editor)]
                 [] txn.pc = "cloned" ->
                      [txn EXCEPT !.pc = "simulated",
                                  !.new_editor = Some(EditorAction(Get(@), Head(txn.queue))),
                                  !.content = Some(get_editor_content(
                                      EditorAction(Get(txn.new_editor), Head(txn.queue))))]
                 [] txn.pc = "simulated" -> [txn EXCEPT !.pc = "acted"]
                 [] txn.pc = "acted" ->
                      [txn EXCEPT !.pc = "called",
                                  !.new_content = Some(OnChange(on_change, Get(txn.content)))]
                 [] txn.pc = "called" ->
                      [txn EXCEPT !.pc = "locked", !.queue = Tail(@),
                                  !.done = Append(@, Head(txn.queue)),
                                  !.new_editor = None, !.content = None,
                                  !.new_content = None]
    /\ state' = CASE txn.pc = "simulated" ->
                      [state EXCEPT !.editor = EditorAction(@, Head(txn.queue))]
                  [] txn.pc = "called" ->
                      [state EXCEPT !.editor = set_text_reactive(@, Get(txn.new_content))]
                  [] OTHER -> state
    /\ UNCHANGED <<surface, clip, on_change, input, calls, frame>>

\* the end of the block: the preedit recorded after a preedit update, the
\* guard dropped
Release ==
    /\ txn.pc = "locked"
    /\ txn.queue = <<>>
    /\ txn' = [txn EXCEPT !.pc = "idle", !.event = None, !.start = None, !.done = <<>>]
    /\ state' = IF txn.event # None /\ Get(txn.event).kind = "Preedit"
                THEN [state EXCEPT !.preedit_string = Some(Get(txn.event).text)]
                ELSE state
    /\ UNCHANGED <<surface, clip, on_change, input, calls, frame>>

\* a reader takes the lock, reads the buffer and drops the lock
Read ==
    /\ ~write_lock_held(txn.pc)
    /\ txn' = [txn EXCEPT !.seen = Some(get_editor_content(state.editor)),
                          !.seen_at = txn.pc]
    /\ UNCHANGED <<surface, clip, state, on_change, input, calls, frame>>

NextLock == Acquire \/ HandleActionStep \/ Release \/ Read

SpecLock == InitLock /\ [][NextLock]_vars

----------------------------------------------------------------------------
(* Specification SpecPress: passes whose pointer event list holds several  *)
(* press events, or a release before a press, over timestamps that reach   *)
(* past the multi-click window.                                            *)

MaxPressTime == 3

PressTimes(st) ==
    { t \in 0 .. MaxPressTime : st.last_click_time = None \/ t >= Get(st.last_click_time) }

PressLists(st) ==
    {<<Released(MaxPressTime)>>}
    \cup { <<Pressed(t)>> : t \in PressTimes(st) }
    \cup { <<Pressed(pair[1]), Pressed(pair[2])>> :
              pair \in { p \in PressTimes(st) \X PressTimes(st) : p[1] <= p[2] } }
    \cup { <<Released(t), Pressed(t)>> : t \in PressTimes(st) }
    \cup { <<Pressed(t), Released(MaxPressTime), Pressed(MaxPressTime)>> :
              t \in PressTimes(st) }

PressInputs(st) ==
    { Inp(pos, ptr, <<>>, NoModifiers, <<>>) :
          pos \in {PosOutside, PosPadding, PosStart, PosFar}, ptr \in PressLists(st) }

DispatchPress == DispatchOn(PressInputs(state))

NextPress == DispatchPress \/ Propagate

SpecPress == Init /\ [][NextPress]_vars

----------------------------------------------------------------------------
(* Specification SpecClip: clip_and_take_visible as a pure function. Init  *)
(* draws the rectangle list and the viewport, ClipCall applies it.         *)

ClipCoords == -1 .. CoordMax
ClipRects == { RectDef(x, y, w, h) : x \in ClipCoords, y \in ClipCoords,
                                     w \in ClipCoords, h \in ClipCoords }
\* second elements of the two-rectangle lists: one inside, one at the far edge
ClipProbes == { RectDef(0, 0, 1, 1), RectDef(CoordMax, 0, 1, 1) }
ClipLists == {<<>>} \cup { <<r>> : r \in ClipRects }
                    \cup { <<r, p>> : r \in ClipRects, p \in ClipProbes }
ClipEdges == {0, 1, CoordMax, I32_MAX}

InitClip ==
    /\ clip \in [rects : ClipLists, x1 : ClipEdges, y1 : ClipEdges,
                 out : {<<>>}, done : {FALSE}]
    /\ state = InitState
    /\ on_change = "identity"
    /\ input = NoInput
    /\ calls = <<>>
    /\ frame = NoFrame
    /\ surface = NoSurface
    /\ txn = NoTxn

ClipCall ==
    /\ ~clip.done
    /\ clip' = [clip EXCEPT !.out = clip_and_take_visible(clip.rects, clip.x1, clip.y1),
                            !.done = TRUE]
    /\ UNCHANGED <<txn, surface, state, on_change, input, calls, frame>>

NextClip == ClipCall

SpecClip == InitClip /\ [][NextClip]_vars

----------------------------------------------------------------------------
(* Claims about clip_and_take_visible, checked under SpecClip.             *)

\* C1: for every rectangle list and every viewport (x1, y1) with x1, y1 >= 0,
\* every rectangle clip_and_take_visible returns has width >= 0, height >= 0,
\* x >= 0, y >= 0, x + width <= x1 and y + height <= y1.
C1_ClipWithinViewport ==
    clip.done =>
        \A i \in DOMAIN clip.out :
            LET r == clip.out[i]
            IN  /\ r.width >= 0 /\ r.height >= 0
                /\ r.x >= 0 /\ r.y >= 0
                /\ r.x + r.width <= clip.x1
                /\ r.y + r.height <= clip.y1

\* C1 witness: a rectangle sticking out of the viewport on both axes was
\* returned, cut down to the viewport.
C1_Witness ==
    /\ clip.done
    /\ Len(clip.rects) = 1 /\ Len(clip.out) = 1
    /\ clip.rects[1].x < 0
    /\ clip.rects[1].y + clip.rects[1].height > clip.y1
    /\ clip.out[1].width > 0 /\ clip.out[1].height > 0
    /\ clip.out[1] # clip.rects[1]

RemoveAt(seq, i) == SubSeq(seq, 1, i - 1) \o SubSeq(seq, i + 1, Len(seq))

\* entirely outside the viewport [0,x1] x [0,y1]: fully left, above, right
\* or below (the extent of a rectangle runs between x and x + width)
FullyOutside(r, x1, y1) ==
    \/ Max(r.x, r.x + r.width) <= 0
    \/ Max(r.y, r.y + r.height) <= 0
    \/ Min(r.x, r.x + r.width) >= x1
    \/ Min(r.y, r.y + r.height) >= y1

\* entirely inside the viewport [0,x1] x [0,y1]
EntirelyInside(r, x1, y1) ==
    /\ r.width >= 0 /\ r.height >= 0
    /\ r.x >= 0 /\ r.y >= 0
    /\ r.x + r.width <= x1
    /\ r.y + r.height <= y1

\* a zero-width rectangle on the left or right edge of the viewport, or a
\* zero-height rectangle on its top or bottom edge
DegenerateOnEdge(r, x1, y1) ==
    \/ r.width = 0 /\ r.x \in {0, x1}
    \/ r.height = 0 /\ r.y \in {0, y1}

DroppedAt(i) ==
    clip.out = clip_and_take_visible(RemoveAt(clip.rects, i), clip.x1, clip.y1)

ReturnedUnchangedAt(i) ==
    clip.out = clip_and_take_visible(SubSeq(clip.rects, 1, i - 1), clip.x1, clip.y1)
               \o << clip.rects[i] >>
               \o clip_and_take_visible(SubSeq(clip.rects, i + 1, Len(clip.rects)),
                                        clip.x1, clip.y1)

\* C2 as stated: every rectangle entirely outside the viewport is dropped
\* and every rectangle entirely inside it is returned unchanged.
C2_Original ==
    clip.done =>
        \A i \in DOMAIN clip.rects :
            /\ FullyOutside(clip.rects[i], clip.x1, clip.y1) => DroppedAt(i)
            /\ EntirelyInside(clip.rects[i], clip.x1, clip.y1) => ReturnedUnchangedAt(i)

\* C2 amended: every rectangle entirely outside the viewport is dropped, and
\* every rectangle entirely inside it is returned unchanged unless it is a
\* zero-width (zero-height) rectangle lying on a vertical (horizontal) edge
\* of the viewport.
C2_ClipExclusion ==
    clip.done =>
        \A i \in DOMAIN clip.rects :
            /\ FullyOutside(clip.rects[i], clip.x1, clip.y1) => DroppedAt(i)
            /\ ( /\ EntirelyInside(clip.rects[i], clip.x1, clip.y1)
                 /\ ~DegenerateOnEdge(clip.rects[i], clip.x1, clip.y1) )
               => ReturnedUnchangedAt(i)

\* C2 witness: a list of an outside rectangle and an inside one came back as
\* the inside one alone.
C2_Witness ==
    /\ clip.done
    /\ Len(clip.rects) = 2
    /\ FullyOutside(clip.rects[1], clip.x1, clip.y1)
    /\ clip.rects[1].width > 0 /\ clip.rects[1].height > 0
    /\ EntirelyInside(clip.rects[2], clip.x1, clip.y1)
    /\ clip.out = << clip.rects[2] >>

----------------------------------------------------------------------------
(* Claims about the measurement pass, checked under SpecFrame.             *)

\* C3: in every reachable state, after any sequence of measurement and
\* dispatch passes, every rectangle of current_selection_rects has
\* non-negative width and height and lies within the viewport resolved by
\* the last measurement pass that stored it, and none lies fully outside it.
C3_StoredRectsClipped ==
    \A i \in DOMAIN state.current_selection_rects :
        /\ EntirelyInside(state.current_selection_rects[i], frame.x1, frame.y1)
        /\ ~FullyOutside(state.current_selection_rects[i], frame.x1, frame.y1)

\* C3 witness: a selection over two lines was measured in a viewport lower
\* than a line: the first line's rectangle is stored cut, the second's is not
\* stored.
C3_Witness ==
    /\ Len(compute_selection_rects(state.editor)) = 2
    /\ Len(state.current_selection_rects) = 1
    /\ state.current_selection_rects
         = clip_and_take_visible(compute_selection_rects(state.editor), frame.x1, frame.y1)
    /\ state.current_selection_rects[1].height = frame.y1
    /\ frame.y1 < LineHeight

----------------------------------------------------------------------------
(* Claims about the dispatcher, checked under Spec in the state a dispatch *)
(* pass leaves: `input` holds the pass's input as given and as left, and   *)
(* the state before it; `calls` holds its editor actions.                  *)

PassDone == input # NoInput
Given == Get(input.given)
Left == Get(input.left)
Before == Get(input.before)

IsHandled(call) == call.via = "handle_action"
\* the actions only the keyboard and IME block dispatches
TypingKinds == {"Insert", "Backspace", "Enter", "Motion"}
\* the actions only the pointer block dispatches
PointerKinds == {"Click", "DoubleClick", "TripleClick", "Drag", "Scroll"}

\* C4: after any single action applied through handle_action the real
\* buffer's text is exactly the string on_change returned for that action;
\* with the callback that always returns "X", the text after any single
\* keyboard insertion is "X".
C4_BufferIsCallbackResult ==
    /\ \A i \in DOMAIN calls :
          IsHandled(calls[i]) =>
              /\ calls[i].ret = OnChange(on_change, calls[i].args[Len(calls[i].args)])
              /\ calls[i].post = calls[i].ret
              /\ (on_change = "constX" /\ calls[i].action.kind = "Insert")
                    => calls[i].post = <<"X">>
    /\ (calls # <<>> /\ IsHandled(calls[Len(calls)]))
          => get_editor_content(state.editor) = calls[Len(calls)].ret

\* C4 witness: under the constant callback the key "a" was inserted into an
\* empty buffer through handle_action, and the buffer holds "X".
C4_Witness ==
    /\ PassDone
    /\ on_change = "constX"
    /\ Given.keyboard_events = <<KeyA>>
    /\ Len(calls) = 1 /\ IsHandled(calls[1])
    /\ calls[1].action = Insert("a")
    /\ calls[1].args = << <<"a">> >>
    /\ get_editor_content(state.editor) = <<"X">>

\* C5: built without an on_change callback, the configuration's callback
\* returns the empty string, so an insertion, and any other action routed
\* through handle_action, leaves the buffer empty.
C5_DefaultCallbackEmptiesBuffer ==
    on_change = "default" =>
        /\ \A i \in DOMAIN calls :
              IsHandled(calls[i]) => calls[i].ret = <<>> /\ calls[i].post = <<>>
        /\ (\E i \in DOMAIN calls : IsHandled(calls[i]))
              => get_editor_content(state.editor) = <<>>

\* C5 witness: under the default callback the IME committed "ab": two
\* insertions went through handle_action, each offered to the callback, and
\* the buffer is empty.
C5_Witness ==
    /\ PassDone
    /\ on_change = "default"
    /\ Given.ime_events = <<CommitAB>>
    /\ Len(calls) = 2
    /\ calls[1].action = Insert("a") /\ calls[1].args = << <<"a">> >>
    /\ calls[2].action = Insert("b") /\ calls[2].args = << <<"b">> >>
    /\ get_editor_content(state.editor) = <<>>

\* C6: for every action routed through handle_action, on_change is invoked
\* exactly once, with the full content the buffer would have right after the
\* action applied to the state as it was before the action (itself the
\* state the previous action's overwrite left): not the content before the
\* action.
C6_CallbackSeesContentAfterAction ==
    \A i \in DOMAIN calls :
        /\ IsHandled(calls[i]) =>
              calls[i].args = << get_editor_content(EditorAction(calls[i].pre,
                                                                 calls[i].action)) >>
        /\ ~IsHandled(calls[i]) => calls[i].args = <<>>
        /\ i > 1 => get_editor_content(calls[i].pre) = calls[i - 1].post
        /\ i = 1 => calls[i].pre.lines = Before.editor.lines

\* C6 witness: an insertion into a buffer holding "X" was offered to the
\* callback as a two-character text, which is neither the content before the
\* action nor what the callback returned.
C6_Witness ==
    /\ PassDone
    /\ \E i \in DOMAIN calls :
          /\ IsHandled(calls[i])
          /\ calls[i].action.kind = "Insert"
          /\ get_editor_content(calls[i].pre) = <<"X">>
          /\ Len(calls[i].args) = 1 /\ Len(calls[i].args[1]) = 2
          /\ calls[i].args[1] # calls[i].ret

\* a pass of IME events alone on a focused editor at rest, nothing selected
ImeOnlyPass ==
    /\ PassDone
    /\ Before.focused
    /\ ~Before.is_dragging
    /\ Before.editor.selection.kind = "None"
    /\ Given.cursor_events = <<>>
    /\ Given.keyboard_events = <<>>

\* the text with the characters from offset `from` up to `to` replaced by str
Replaced(text, from, to, str) ==
    SubSeq(text, 1, from) \o str \o SubSeq(text, to + 1, Len(text))

\* the offset of the cursor of the editor before the pass
CursorBefore == Offset(Before.editor.lines, Before.editor.cursor)

\* the preedit of the state before the pass stands in the text, before the cursor
CompositionIntact ==
    /\ Before.preedit_string # None
    /\ CursorBefore >= Len(Get(Before.preedit_string))
    /\ SubSeq(get_editor_content(Before.editor),
              CursorBefore - Len(Get(Before.preedit_string)) + 1, CursorBefore)
         = Get(Before.preedit_string)

\* C7: with the identity callback and the editor focused, a preedit event
\* after a preedit event leaves the new preedit text inserted once where the
\* old one stood, the old one deleted first: preedit "ab" then preedit "abc"
\* leaves "abc", never "ababc".
C7_PreeditReplacesPreedit ==
    (ImeOnlyPass /\ on_change = "identity") =>
        /\ ( /\ Len(Given.ime_events) = 1
             /\ Given.ime_events[1].kind = "Preedit"
             /\ CompositionIntact )
           => /\ get_editor_content(state.editor)
                   = Replaced(get_editor_content(Before.editor),
                              CursorBefore - Len(Get(Before.preedit_string)),
                              CursorBefore, Given.ime_events[1].text)
              /\ state.preedit_string = Some(Given.ime_events[1].text)
        /\ ( /\ Given.ime_events = <<PreeditAB, PreeditABC>>
             /\ Before.preedit_string = None )
           => /\ get_editor_content(state.editor)
                   = Replaced(get_editor_content(Before.editor), CursorBefore,
                              CursorBefore, <<"a", "b", "c">>)
              /\ state.preedit_string = Some(<<"a", "b", "c">>)

\* C7 witness: the buffer held the preedit "ab", the preedit "abc" arrived,
\* two Backspaces and three insertions were applied and the buffer holds
\* "abc".
C7_Witness ==
    /\ ImeOnlyPass /\ on_change = "identity"
    /\ Given.ime_events = <<PreeditABC>>
    /\ Before.preedit_string = Some(<<"a", "b">>)
    /\ get_editor_content(Before.editor) = <<"a", "b">>
    /\ [i \in DOMAIN calls |-> calls[i].action.kind]
         = <<"Backspace", "Backspace", "Insert", "Insert", "Insert">>
    /\ get_editor_content(state.editor) = <<"a", "b", "c">>

\* C8: in a pass in which the editor does not hold focus when the keyboard
\* and IME block is reached, the keyboard and IME event lists are left as
\* given, no action of that block is applied to the buffer and on_change is
\* not invoked; the lists lose events only when the editor holds focus.
C8_UnfocusedKeysPassThrough ==
    /\ (PassDone /\ ~state.focused) =>
          /\ Left.keyboard_events = Given.keyboard_events
          /\ Left.ime_events = Given.ime_events
          /\ \A i \in DOMAIN calls :
                ~IsHandled(calls[i]) /\ calls[i].action.kind \notin TypingKinds
          /\ get_editor_content(state.editor) = get_editor_content(Before.editor)
          /\ state.preedit_string = Before.preedit_string
    /\ (PassDone /\ ( \/ Left.keyboard_events # Given.keyboard_events
                      \/ Left.ime_events # Given.ime_events )) => state.focused

\* C8 witness: an unfocused editor was given a key and left it in the list.
C8_Witness ==
    /\ PassDone
    /\ ~state.focused
    /\ Given.keyboard_events = <<KeyA>>
    /\ Left.keyboard_events = <<KeyA>>
    /\ calls = <<>>

\* the pointer of the pass is absent or outside the editor's bounds
PointerAway == PassDone /\ ~is_cursor_in_editor(Given)

\* C9 as stated: with the pointer absent or outside the editor's bounds the
\* dispatcher changes no editor state and removes no pointer, keyboard or
\* IME event, whatever the focus state.
C9_Original ==
    PointerAway =>
        /\ state = Before
        /\ Left.cursor_events = Given.cursor_events
        /\ Left.keyboard_events = Given.keyboard_events
        /\ Left.ime_events = Given.ime_events

\* C9 amended: with the pointer absent or outside the editor's bounds the
\* dispatcher changes no focus, drag or click-history state, applies no
\* pointer action and removes no pointer event; it changes no editor state
\* at all and removes no keyboard or IME event when the editor is also
\* unfocused.
C9_PointerAwayPointerBlockSkipped ==
    PointerAway =>
        /\ state.focused = Before.focused
        /\ state.is_dragging = Before.is_dragging
        /\ state.last_click_position = Before.last_click_position
        /\ state.last_click_time = Before.last_click_time
        /\ state.click_count = Before.click_count
        /\ Left.cursor_events = Given.cursor_events
        /\ Left.requests.cursor_icon = Given.requests.cursor_icon
        /\ \A i \in DOMAIN calls : calls[i].action.kind \notin PointerKinds
        /\ ~Before.focused => (state = Before /\ Left = Given)

\* C9 witness: a release outside the bounds of an unfocused editor, with a
\* key, left the state and the input as they were.
C9_Witness ==
    /\ PointerAway
    /\ Given.cursor_position_rel = PosOutside
    /\ \E i \in DOMAIN Given.cursor_events : IsReleased(Given.cursor_events[i])
    /\ Given.keyboard_events = <<KeyA>>
    /\ ~Before.focused
    /\ state = Before /\ Left = Given

\* C10 as stated: after any pass whose pointer events include a release
\* event, the editor is not dragging, whether or not it was dragging before
\* and wherever the pointer is.
C10_Original ==
    (PassDone /\ \E i \in DOMAIN Given.cursor_events : IsReleased(Given.cursor_events[i]))
        => ~state.is_dragging

----------------------------------------------------------------------------
(* Claims about the frames of syntax_edit_core, checked under SpecMeasure. *)

FrameDone == frame # NoMeasurement
Count(steps, name) == Cardinality({ i \in DOMAIN steps : steps[i] = name })
Precedes(steps, a, b) ==
    \A i, j \in DOMAIN steps : steps[i] = a /\ steps[j] = b => i < j

\* C11: in every measurement pass the highlighter hook runs exactly once
\* when a highlighter is present (and not at all otherwise) and before the
\* layout query text_data; the layout query runs once, before the selection
\* rectangles are computed; and the text draw command is emitted at most
\* once, after the rectangles are computed.
C11_MeasureOrder ==
    FrameDone =>
        /\ Count(frame.steps, "highlighter") = (IF frame.highlighter # None THEN 1 ELSE 0)
        /\ Count(frame.steps, "text_data") = 1
        /\ Count(frame.steps, "compute_selection_rects") = 1
        /\ Count(frame.steps, "TextCommand") <= 1
        /\ Precedes(frame.steps, "highlighter", "text_data")
        /\ Precedes(frame.steps, "text_data", "compute_selection_rects")
        /\ Precedes(frame.steps, "compute_selection_rects", "TextCommand")

\* a pass with a highlighter that measures a highlight child and draws
C11_Witness ==
    /\ FrameDone
    /\ frame.highlighter # None
    /\ frame.steps[1] = "highlighter"
    /\ Count(frame.steps, "measure_child") > 0
    /\ Count(frame.steps, "TextCommand") = 1

\* C12: a successful measurement pass reports the width of the shaped text
\* plus one CURSOR_WIDRH, whatever the focus and the maximum width; and the
\* height of the shaped text, or the maximum height where there is one (not
\* negative) and the text is higher.
C12_ReportedSize ==
    FrameDone /\ frame.result # None =>
        /\ Get(frame.result).width = frame.size[1] + CURSOR_WIDRH
        /\ max_pixels(frame.constraint.height) = None
               => Get(frame.result).height = frame.size[2]
        /\ (/\ max_pixels(frame.constraint.height) # None
            /\ Get(max_pixels(frame.constraint.height)) >= 0)
               => Get(frame.result).height
                      = Min(frame.size[2], Get(max_pixels(frame.constraint.height)))

\* a focused pass whose text is wider than the maximum width and higher
\* than the maximum height
C12_Witness ==
    /\ FrameDone
    /\ frame.result # None
    /\ frame.focused
    /\ max_pixels(frame.constraint.width) # None
    /\ frame.size[1] > Get(max_pixels(frame.constraint.width))
    /\ max_pixels(frame.constraint.height) # None
    /\ Get(max_pixels(frame.constraint.height)) >= 0
    /\ frame.size[2] > Get(max_pixels(frame.constraint.height))
    /\ Get(frame.result).height < frame.size[2]

\* C15: the selection highlight quads rendered for a frame have the count,
\* widths and heights of the rectangles the measurement pass of that frame
\* stored in current_selection_rects.
C15_Original ==
    FrameDone /\ Count(frame.steps, "store") = 1 =>
        frame.quads = selection_highlight_quads(state)

----------------------------------------------------------------------------
(* Claims about the presets, checked under SpecSurface.                    *)

Drawn == Get(surface.out).style

\* C13: the surface of the preset minimal is filled only, with no outline,
\* focused or not; the surface of simple has a thin gray border; the
\* surface of outlined has that border and a blue one when focused.
C13_Original ==
    surface.out # None =>
        /\ surface.args = minimal => Drawn.kind = "Filled"
        /\ surface.args = simple =>
               /\ Drawn.kind = "FilledOutlined"
               /\ Drawn.border_width = 1
               /\ Drawn.border_color = GRAY70
        /\ surface.args = outlined =>
               /\ Drawn.kind = "FilledOutlined"
               /\ Drawn.border_width = 1
               /\ Drawn.border_color = (IF surface.focused THEN BLUE ELSE GRAY70)

----------------------------------------------------------------------------
(* Claims about the routes of the dispatcher's actions and the order of    *)
(* handle_action, checked under Spec.                                      *)

\* the actions the mapped keys and the IME events dispatch
EditKinds == {"Insert", "Backspace", "Enter"}

\* C14 as stated: every action the dispatcher dispatches from a click, a
\* drag, a key event (select-all included) or an IME event goes through
\* handle_action: on_change is invoked for it and the buffer overwritten
\* with what it returns.
C14_Original ==
    \A i \in DOMAIN calls :
        calls[i].action.kind # "Scroll" =>
            /\ IsHandled(calls[i])
            /\ Len(calls[i].args) = 1
            /\ calls[i].post = calls[i].ret

\* C14: the actions of mapped key events and of IME events go through
\* handle_action, on_change invoked once for each and the buffer overwritten
\* with what it returns; the actions of clicks, of drags and of the
\* select-all keypress are applied to the editor directly, on_change not
\* invoked and the text left as it was.
C14_KeysAndImeThroughHandleAction ==
    \A i \in DOMAIN calls :
        /\ calls[i].action.kind \in EditKinds =>
              /\ IsHandled(calls[i])
              /\ Len(calls[i].args) = 1
              /\ calls[i].ret = OnChange(on_change, calls[i].args[1])
              /\ calls[i].post = calls[i].ret
        /\ calls[i].action.kind \in PointerKinds \cup {"Motion"} =>
              /\ ~IsHandled(calls[i])
              /\ calls[i].args = <<>>
              /\ calls[i].post = get_editor_content(calls[i].pre)

\* C14 witness: one pass clicked on the text, typed "a" and committed "ab":
\* the click was applied directly, the three insertions through
\* handle_action.
C14_Witness ==
    /\ PassDone
    /\ Len(calls) = 4
    /\ calls[1].action.kind \in {"Click", "DoubleClick", "TripleClick"}
    /\ ~IsHandled(calls[1])
    /\ \A i \in 2 .. 4 : calls[i].action.kind = "Insert" /\ IsHandled(calls[i])
    /\ Given.ime_events = <<CommitAB>>

\* C16 as stated: handle_action invokes on_change before it applies the
\* action to the real editor: as on_change runs, the real buffer still holds
\* the content it held before the action.
C16_Original ==
    \A i \in DOMAIN calls :
        IsHandled(calls[i]) =>
            calls[i].real = Some(get_editor_content(calls[i].pre))

\* C16: handle_action applies the action to a clone and reads its content,
\* applies the action to the real editor, then invokes on_change with the
\* content read, and last overwrites the real buffer with what on_change
\* returned: as on_change runs the real editor has already been acted on
\* and holds the content on_change is given.
C16_RealEditorActedBeforeCallback ==
    \A i \in DOMAIN calls :
        IsHandled(calls[i]) =>
            /\ calls[i].args
                 = << get_editor_content(EditorAction(calls[i].pre, calls[i].action)) >>
            /\ calls[i].real = Some(calls[i].args[1])
            /\ calls[i].ret = OnChange(on_change, calls[i].args[1])
            /\ calls[i].post = calls[i].ret

\* C16 witness: "a" typed into an empty buffer under the constant callback:
\* on_change was given "a" while the real buffer already held "a", and the
\* buffer was then overwritten with "X".
C16_Witness ==
    /\ PassDone
    /\ on_change = "constX"
    /\ Len(calls) = 1 /\ IsHandled(calls[1])
    /\ get_editor_content(calls[1].pre) = <<>>
    /\ calls[1].real = Some(<<"a">>)
    /\ calls[1].post = <<"X">>

\* the actions of the pass that went through handle_action, in order
HandledActions ==
    [i \in 1 .. Len(SelectSeq(calls, IsHandled)) |-> SelectSeq(calls, IsHandled)[i].action]

IsCtrl(inp) == inp.key_modifiers.control \/ inp.key_modifiers.super

\* the key events of the pass other than select-all keypresses
OtherKeys(inp) ==
    SelectSeq(inp.keyboard_events, LAMBDA key_event : ~is_select_all(key_event, IsCtrl(inp)))

\* C17: a pass over a focused editor applies, through handle_action and in
\* event order, the actions of every recognized key event other than a
\* select-all keypress, and then leaves the keyboard event list empty, also
\* when the pass holds a select-all keypress.
C17_Original ==
    (PassDone /\ state.focused /\ Given.ime_events = <<>>) =>
        /\ HandledActions = all_actions(OtherKeys(Given), Given.key_modifiers)
        /\ Left.keyboard_events = <<>>

\* C18: in a pass over a focused editor whose key events hold a pressed
\* character "a" or "A" under the control or the command modifier, the
\* cursor is put at (0, 0), a normal selection anchored there is set and the
\* cursor moved to the end of the buffer: afterwards the selection is
\* Normal anchored at (0, 0), the cursor is at the buffer's end and the text
\* is unchanged; the key mapping is not consulted, so nothing goes through
\* handle_action and no character is inserted.
C18_SelectAll ==
    (PassDone /\ state.focused /\ select_all_event(Given) /\ Given.ime_events = <<>>) =>
        /\ state.editor.selection = Selection("Normal", Cursor(0, 0))
        /\ state.editor.cursor = BufferEnd(state.editor.lines)
        /\ get_editor_content(state.editor) = get_editor_content(Before.editor)
        /\ HandledActions = <<>>
        /\ calls # <<>>
        /\ calls[Len(calls)].action = Motion("BufferEnd")
        /\ calls[Len(calls)].pre.cursor = Cursor(0, 0)
        /\ calls[Len(calls)].pre.selection = Selection("Normal", Cursor(0, 0))

\* C18 witness: Ctrl+a over a buffer of two characters or more with nothing
\* selected and the cursor inside it selects from (0, 0) to the buffer's end.
C18_Witness ==
    /\ PassDone
    /\ state.focused
    /\ Given.keyboard_events = <<KeyA>>
    /\ Given.key_modifiers = Control
    /\ Before.editor.selection = NoSelection
    /\ Len(get_editor_content(state.editor)) >= 2
    /\ Before.editor.cursor # BufferEnd(Before.editor.lines)
    /\ state.editor.cursor = BufferEnd(state.editor.lines)
    /\ selection_bounds(state.editor)
         = Some(<<Cursor(0, 0), BufferEnd(state.editor.lines)>>)

----------------------------------------------------------------------------
(* Claims about the IME events and the press, checked under Spec.          *)

\* the Backspaces that retract a recorded preedit
Retraction(preedit_string) ==
    IF preedit_string # None THEN Repeat(Len(Get(preedit_string)), Backspace) ELSE <<>>

LastIme == Given.ime_events[Len(Given.ime_events)]

\* C19: over a focused editor an IME commit applies, through handle_action,
\* one Backspace for every character of the recorded preedit, if one is
\* recorded, and then one Insert for every committed character, and leaves
\* no preedit recorded; a preedit update retracts the recorded preedit the
\* same way, inserts the new text and records it. A pass changes
\* preedit_string in no other way, so that it is recorded from a preedit
\* update to the next commit.
C19_ImeCommitAndPreedit ==
    PassDone =>
        /\ (state.focused /\ Given.keyboard_events = <<>> /\ Len(Given.ime_events) = 1) =>
              /\ HandledActions
                   = Retraction(Before.preedit_string) \o Inserts(LastIme.text)
              /\ Len(SelectSeq(calls, IsHandled))
                   = Len(Retraction(Before.preedit_string)) + Len(LastIme.text)
        /\ state.preedit_string
             = IF state.focused /\ Given.ime_events # <<>>
               THEN IF LastIme.kind = "Preedit" THEN Some(LastIme.text) ELSE None
               ELSE Before.preedit_string

\* C19 witness: with the preedit "ab" recorded, the commit of "ab" applied
\* two Backspaces and two Inserts and left no preedit recorded.
C19_Witness ==
    /\ PassDone
    /\ state.focused
    /\ Before.preedit_string = Some(<<"a", "b">>)
    /\ Given.ime_events = <<CommitAB>>
    /\ HandledActions = <<Backspace, Backspace, Insert("a"), Insert("b")>>
    /\ state.preedit_string = None

\* a pass with a press event and the pointer inside the editor's bounds
PressInside ==
    /\ PassDone
    /\ is_cursor_in_editor(Given)
    /\ SelectSeq(Given.cursor_events, IsPressed) # <<>>

PressRel == TextRelative(Get(Given.cursor_position_rel))
PressTime == SelectSeq(Given.cursor_events, IsPressed)[1].timestamp
ClickHistory(st) == <<st.last_click_position, st.last_click_time, st.click_count>>
ClickKinds == {"Click", "DoubleClick", "TripleClick"}
ReleasedInPass == SelectSeq(Given.cursor_events, IsReleased) # <<>>
IsPointerCall(call) == call.action.kind \in ClickKinds \cup {"Drag"}

\* C20: after a pass with a press inside the bounds the editor is focused.
\* Where the press position less padding and border is negative in an axis,
\* the pass completes with no click classified (the click history is as
\* before), no action dispatched and dragging not entered; where it is
\* non-negative in both, the click is classified, its action is dispatched
\* at the text-relative position and dragging is entered (until a release
\* event of the same pass ends it).
C20_PressInside ==
    PressInside =>
        /\ state.focused
        /\ (PressRel.x < 0 \/ PressRel.y < 0) =>
              /\ ClickHistory(state) = ClickHistory(Before)
              /\ SelectSeq(calls, IsPointerCall) = <<>>
              /\ state.is_dragging = (Before.is_dragging /\ ~ReleasedInPass)
              /\ (Given.keyboard_events = <<>> /\ Given.ime_events = <<>>)
                    => calls = <<>> /\ state.editor = Before.editor
        /\ (PressRel.x >= 0 /\ PressRel.y >= 0) =>
              /\ ClickHistory(state)
                   = ClickHistory(handle_click(Before, PressRel, PressTime)[1])
              /\ Len(SelectSeq(calls, IsPointerCall)) = 1
              /\ calls[1].action
                   = PointAction(handle_click(Before, PressRel, PressTime)[2],
                                 PressRel.x, PressRel.y)
              /\ calls[1].pre = Before.editor
              /\ state.is_dragging = ~ReleasedInPass

\* C20 witness: an unfocused editor with a click on record is pressed on
\* its padding: it takes the focus, and nothing else changes.
C20_Witness ==
    /\ PressInside
    /\ Given.cursor_position_rel = PosPadding
    /\ ~Before.focused
    /\ Before.click_count > 0
    /\ state.focused
    /\ state = [Before EXCEPT !.focused = TRUE]
    /\ calls = <<>>

----------------------------------------------------------------------------
(* Claims about dragging, scrolling and the capture of pointer events,     *)
(* checked under Spec.                                                     *)

IsDragCall(call) == call.action.kind = "Drag"
DragCalls == SelectSeq(calls, IsDragCall)

\* a pass with the pointer inside the bounds, the editor dragging and no
\* press event
DragPass ==
    /\ PassDone
    /\ is_cursor_in_editor(Given)
    /\ Before.is_dragging
    /\ SelectSeq(Given.cursor_events, IsPressed) = <<>>

\* C21: while dragging, a pass (pointer inside the bounds) whose
\* text-relative position is non-negative and differs from the last
\* recorded position dispatches exactly one Drag action at that position
\* and records the position; a pass whose position equals the recorded one
\* or is negative in an axis dispatches no Drag action and leaves the
\* recorded position as it was. When not dragging no Drag action is
\* dispatched.
C21_DragExtends ==
    PassDone =>
        /\ DragPass =>
              IF /\ PressRel.x >= 0 /\ PressRel.y >= 0
                 /\ Before.last_click_position # Some(PressRel)
              THEN /\ Len(DragCalls) = 1
                   /\ DragCalls[1].action = PointAction("Drag", PressRel.x, PressRel.y)
                   /\ ~IsHandled(DragCalls[1])
                   /\ state.last_click_position = Some(PressRel)
              ELSE /\ DragCalls = <<>>
                   /\ state.last_click_position = Before.last_click_position
        /\ ~Before.is_dragging => DragCalls = <<>>
        /\ ~is_cursor_in_editor(Given) => DragCalls = <<>>

\* C21 witness: pressed on the first character, the pointer is then moved
\* to the far end of the line: one Drag there, recorded, and the text
\* between is selected.
C21_Witness ==
    /\ DragPass
    /\ Before.last_click_position = Some(TextRelative(Get(PosStart)))
    /\ Given.cursor_position_rel = PosFar
    /\ Len(DragCalls) = 1
    /\ state.last_click_position = Some(TextRelative(Get(PosFar)))
    /\ state.editor.selection.kind = "Normal"
    /\ get_editor_content(state.editor) # <<>>

IsScrollCall(call) == call.action.kind = "Scroll"
ScrollCalls == SelectSeq(calls, IsScrollCall)
ScrollEvents == SelectSeq(Given.cursor_events, IsScroll)

\* C22: after a pass with the pointer inside the bounds and the editor
\* focused at the end of the pointer handling, the pointer event list is
\* empty; after a pass that leaves the editor unfocused the list is as it
\* was given; and the scroll events are dispatched, each as one Scroll
\* action of minus its vertical delta, when the editor is focused (pointer
\* inside the bounds) and not at all otherwise.
C22_CaptureAndScroll ==
    PassDone =>
        /\ (is_cursor_in_editor(Given) /\ state.focused) => Left.cursor_events = <<>>
        /\ ~state.focused => Left.cursor_events = Given.cursor_events
        /\ (is_cursor_in_editor(Given) /\ state.focused) =>
              /\ Len(ScrollCalls) = Len(ScrollEvents)
              /\ \A i \in DOMAIN ScrollCalls :
                    /\ ScrollCalls[i].action = Scroll(-ScrollEvents[i].delta_y)
                    /\ ~IsHandled(ScrollCalls[i])
        /\ ~state.focused => ScrollCalls = <<>>

\* C22 witness: a focused editor is given one scroll event of delta 3 with
\* the pointer on the text: one Scroll of -3 is dispatched and the event
\* list is left empty.
C22_Witness ==
    /\ PassDone
    /\ state.focused
    /\ is_cursor_in_editor(Given)
    /\ Given.cursor_events = <<Scrolled(MaxTime, 3)>>
    /\ Len(calls) = 1
    /\ calls[1].action = Scroll(-3)
    /\ Left.cursor_events = <<>>

----------------------------------------------------------------------------
(* Claims about the placement of the children and about                    *)
(* compute_selection_rects, checked under SpecMeasure.                     *)

\* the child at this index of the frame's children is the cursor node: the
\* one after the frame's selection highlight quads, there when focused
IsCursorNode(index) == frame.focused /\ index = Len(frame.quads)
\* the child at this index is a selection highlight quad
IsHighlightQuad(index) == index < Len(frame.quads)

\* C23: a child a measurement pass places at the cursor's pixel position is
\* the cursor node, the child after all the selection highlight children of
\* the frame, and a child it places at a selection rectangle's position is a
\* selection highlight child.
C23_Original ==
    FrameDone =>
        \A i \in DOMAIN frame.placed :
            /\ frame.placed[i].by = "cursor" => IsCursorNode(frame.placed[i].child)
            /\ frame.placed[i].by = "rect" => IsHighlightQuad(frame.placed[i].child)

----------------------------------------------------------------------------
(* Claim about the write lock of the Editor State, checked under SpecLock. *)

\* what handle_action, taken as one step, leaves of the actions applied so
\* far by the block in progress
AppliedSoFar ==
    handle_actions([st |-> [state EXCEPT !.editor = Get(txn.start)], inp |-> NoInput,
                    log |-> <<>>, over |-> FALSE], txn.done, on_change).st.editor

\* C25: during every apply of a key or IME action the write lock of the
\* Editor State is held from before the clone is taken until after the
\* buffer is overwritten with the result of the callback, the callback
\* running under the lock: every read of the buffer is taken outside the
\* block, never between an action and its overwrite, and reads what whole
\* applies have left.
C25_WriteLockAcrossApply ==
    /\ txn.seen # None => txn.seen_at = "idle"
    /\ txn.pc = "locked" => state.editor = AppliedSoFar

\* a callback about to replace a buffer that differs from its result, after
\* a read of the buffer
C25_Witness ==
    /\ txn.pc = "called"
    /\ get_editor_content(state.editor) # Get(txn.new_content)
    /\ txn.seen # None
    /\ Get(txn.seen) # get_editor_content(Get(txn.start))

----------------------------------------------------------------------------
(* Claim about passes with several press events, checked under SpecPress.  *)

Presses == SelectSeq(Given.cursor_events, IsPressed)
SeveralPresses == PressInside /\ Len(Presses) >= 2
IsClickCall(call) == call.action.kind \in ClickKinds
ClickCalls == SelectSeq(calls, IsClickCall)

\* C26 as stated: in a pass with several press events exactly one click is
\* classified, with the timestamp of the first press event and at the
\* pointer position of the pass, at most one click action is dispatched,
\* and a pass with a press and a release ends not dragging.
C26_Original ==
    SeveralPresses =>
        /\ ClickHistory(state)
             = ClickHistory(handle_click(Before, PressRel, Presses[1].timestamp)[1])
        /\ Len(ClickCalls) <= 1
        /\ ReleasedInPass => ~state.is_dragging

\* C26: in a pass with the pointer inside the bounds and several press
\* events, where the pointer position less padding and border is
\* non-negative in both axes exactly one click is classified, with the
\* timestamp of the first press event and at that position, and exactly
\* one click action, of the classified type, is dispatched there; where it
\* is negative in an axis no click is classified and no click action is
\* dispatched. The press is handled before the release whatever the order
\* of the events in the list: a pass inside the bounds with a press and a
\* release ends not dragging.
C26_OneClickPerPass ==
    /\ SeveralPresses =>
          /\ (PressRel.x >= 0 /\ PressRel.y >= 0) =>
                /\ ClickHistory(state)
                     = ClickHistory(handle_click(Before, PressRel, Presses[1].timestamp)[1])
                /\ Len(ClickCalls) = 1
                /\ ClickCalls[1].action
                     = PointAction(handle_click(Before, PressRel, Presses[1].timestamp)[2],
                                   PressRel.x, PressRel.y)
          /\ (PressRel.x < 0 \/ PressRel.y < 0) =>
                /\ ClickHistory(state) = ClickHistory(Before)
                /\ ClickCalls = <<>>
    /\ (PressInside /\ ReleasedInPass) => ~state.is_dragging

\* C26 witness: presses before and after a release in one pass, the first
\* inside the multi-click window of the click on record and the last
\* outside it: one double click at the time of the first, not dragging.
C26_Witness ==
    /\ SeveralPresses
    /\ ReleasedInPass
    /\ Given.cursor_events[Len(Given.cursor_events)].content = "Pressed"
    /\ Before.last_click_time # None
    /\ Presses[1].timestamp - Get(Before.last_click_time) <= ClickWindow
    /\ Presses[Len(Presses)].timestamp - Get(Before.last_click_time) > ClickWindow
    /\ Len(ClickCalls) = 1
    /\ ClickCalls[1].action.kind = "DoubleClick"
    /\ state.last_click_time = Some(Presses[1].timestamp)
    /\ ~state.is_dragging

====
